---- MODULE Spec2Model ----
(***************************************************************************)
(* regfs: a ProjFS provider that projects the Windows registry as a        *)
(* virtual file system.  The model covers the provider dispatcher          *)
(* (regfs.rs), the per-enumeration cache (dirinfo.rs) and the path         *)
(* translator (regop.rs).  One action is one host callback, run to         *)
(* completion; the registry itself is an environment that may change       *)
(* between callbacks.                                                      *)
(***************************************************************************)
EXTENDS Integers, Sequences, FiniteSets, TLC

(***************************************************************************)
(* Bounds                                                                  *)
(***************************************************************************)
\* largest number of entries the host's directory buffer accepts in one call
MaxCap == 2
\* largest byte length the host requests in one get_file_data call
MaxLength == 4
\* largest byte offset the host requests in one get_file_data call
MaxOffset == 1

(***************************************************************************)
(* Names, characters and the host's file-name primitives                   *)
(***************************************************************************)
Lower == "abcdefghijklmnopqrstuvwxyz"
Upper == "ABCDEFGHIJKLMNOPQRSTUVWXYZ"
\* the characters used by the names of the model, in code-point order
Ordinal == "*0123456789?ABCDEFGHIJKLMNOPQRSTUVWXYZ_abcdefghijklmnopqrstuvwxyz"

Chars == {SubSeq(Ordinal, i, i) : i \in 1..Len(Ordinal)}

IndexIn(c, str) ==
    IF \E i \in 1..Len(str) : SubSeq(str, i, i) = c
    THEN CHOOSE i \in 1..Len(str) : SubSeq(str, i, i) = c
    ELSE 0

\* upper-casing of one character, as the host's case-insensitive primitives do
UpperOf ==
    [c \in Chars |-> IF IndexIn(c, Lower) > 0
                     THEN SubSeq(Upper, IndexIn(c, Lower), IndexIn(c, Lower))
                     ELSE c]

ToUpper(c) == UpperOf[c]

CodeOf == [c \in Chars |-> IndexIn(c, Ordinal)]

CharCode(c) == CodeOf[c]

RECURSIVE FileNameCompare(_, _)
\* host collation: case-insensitive, code-point order, a proper prefix first;
\* negative, zero or positive like the C primitive
FileNameCompare(a, b) ==
    IF a = "" /\ b = "" THEN 0
    ELSE IF a = "" THEN -1
    ELSE IF b = "" THEN 1
    ELSE IF CharCode(ToUpper(Head(a))) < CharCode(ToUpper(Head(b))) THEN -1
    ELSE IF CharCode(ToUpper(Head(a))) > CharCode(ToUpper(Head(b))) THEN 1
    ELSE FileNameCompare(Tail(a), Tail(b))

RECURSIVE FileNameMatch(_, _)
\* host wildcard match: '*' any run of characters, '?' any one character,
\* everything else compared case-insensitively
FileNameMatch(name, pattern) ==
    IF pattern = "" THEN name = ""
    ELSE IF Head(pattern) = "*"
         THEN \/ FileNameMatch(name, Tail(pattern))
              \/ (name # "" /\ FileNameMatch(Tail(name), pattern))
    ELSE /\ name # ""
         /\ (Head(pattern) = "?" \/ ToUpper(Head(name)) = ToUpper(Head(pattern)))
         /\ FileNameMatch(Tail(name), Tail(pattern))

\* the registry compares key and value names without regard to case
RECURSIVE UpperName(_)
UpperName(name) ==
    IF name = "" THEN "" ELSE ToUpper(Head(name)) \o UpperName(Tail(name))

\* every name the registry or the host uses in this model
Names ==
    { "HKEY_CLASSES_ROOT", "HKEY_CURRENT_USER", "HKEY_LOCAL_MACHINE",
      "HKEY_USERS", "HKEY_CURRENT_CONFIG", "hkey_local_machine",
      "SOFTWARE", "software", "Alpha", "Version", "Count", "count",
      "nokey" }

\* search expressions of the host
Exprs == {"*", "s*"}

\* the three primitives, tabulated over the names of the model
CompareTable == [a \in Names |-> [b \in Names |-> FileNameCompare(a, b)]]
MatchTable == [n \in Names |-> [e \in Exprs |-> FileNameMatch(n, e)]]
FoldTable == [n \in Names |-> UpperName(n)]

PrjFileNameCompare(a, b) == CompareTable[a][b]
PrjFileNameMatch(name, pattern) == MatchTable[name][pattern]
FoldName(name) == FoldTable[name]

FoldPath(path) == [i \in DOMAIN path |-> FoldName(path[i])]

(***************************************************************************)
(* Option values: None, or Some(v)                                         *)
(***************************************************************************)
None == <<>>
Some(v) == <<v>>
IsSome(o) == o # <<>>
Unwrap(o) == o[1]

(***************************************************************************)
(* The registry (backing store).  A store maps the path of every existing  *)
(* key to what the registry lists for it: the names of its subkeys and its *)
(* values (name and raw bytes), in the order the registry enumerates them. *)
(***************************************************************************)
HKCR == "HKEY_CLASSES_ROOT"
HKCU == "HKEY_CURRENT_USER"
HKLM == "HKEY_LOCAL_MACHINE"
HKU  == "HKEY_USERS"
HKCC == "HKEY_CURRENT_CONFIG"

EmptyKey == [subkeys |-> <<>>, values |-> <<>>]

\* the registry as first observed: a key and a value of HKLM differ only in
\* the case of their name
StoreA ==
    (<<HKCR>> :> EmptyKey) @@ (<<HKCU>> :> EmptyKey) @@
    (<<HKU>> :> EmptyKey) @@ (<<HKCC>> :> EmptyKey) @@
    (<<HKLM>> :> [subkeys |-> <<"SOFTWARE", "Alpha">>,
                  values  |-> << [name |-> "Version",  bytes |-> <<10, 0, 0, 0>>],
                                 [name |-> "software", bytes |-> <<1, 2>>] >>]) @@
    (<<HKLM, "SOFTWARE">> :> [subkeys |-> <<>>,
                              values  |-> << [name |-> "Count", bytes |-> <<7, 9>>] >>]) @@
    (<<HKLM, "Alpha">> :> EmptyKey)

\* the registry after another process edited it: HKLM\SOFTWARE is gone and
\* HKLM\Version is shorter
StoreB ==
    (<<HKCR>> :> EmptyKey) @@ (<<HKCU>> :> EmptyKey) @@
    (<<HKU>> :> EmptyKey) @@ (<<HKCC>> :> EmptyKey) @@
    (<<HKLM>> :> [subkeys |-> <<"Alpha">>,
                  values  |-> << [name |-> "Version", bytes |-> <<6, 0>>] >>]) @@
    (<<HKLM, "Alpha">> :> EmptyKey)

\* the states the registry is observed in, by name
Stores == [A |-> StoreA, B |-> StoreB]

(***************************************************************************)
(* regop.rs: the path translator                                           *)
(***************************************************************************)
\* RegOps::new: the fixed root keys
keymap == {HKCR, HKCU, HKLM, HKU, HKCC}

\* orders in which the HashMap may iterate over the root keys
KeymapOrders ==
    { <<HKU, HKLM, HKCU, HKCC, HKCR>>,
      <<HKLM, HKCR, HKU, HKCU, HKCC>> }

\* the iteration order matters for the root only
OrdersFor(path) ==
    IF Len(path) = 0 THEN KeymapOrders
    ELSE {CHOOSE order \in KeymapOrders : TRUE}

RegEntry(name, size) == [name |-> name, size |-> size]

\* a host path is relative to the virtualization root: a sequence of
\* components, the empty sequence being the root itself
is_virtualization_root(path) == Len(path) = 0

\* winreg RegKey::open_subkey: the key below root named by subkey, names
\* compared without regard to case
open_subkey(st, root, subkey) ==
    IF \E k \in DOMAIN st : FoldPath(k) = FoldPath(root \o subkey)
    THEN Some(CHOOSE k \in DOMAIN st : FoldPath(k) = FoldPath(root \o subkey))
    ELSE None

\* winreg RegKey::get_raw_value: the bytes of the value of key named name
get_raw_value(st, key, name) ==
    LET vs == st[key].values
    IN  IF \E i \in DOMAIN vs : FoldName(vs[i].name) = FoldName(name)
        THEN Some(vs[CHOOSE i \in DOMAIN vs : FoldName(vs[i].name) = FoldName(name)].bytes)
        ELSE None

open_key_by_path(st, path) ==
    IF Len(path) = 1
    THEN IF path[1] \in keymap THEN Some(<<path[1]>>) ELSE None
    ELSE IF Len(path) = 0 THEN None
    ELSE LET rootkey == Head(path)
             subkey  == Tail(path)
         IN  IF rootkey \in keymap
             THEN open_subkey(st, <<rootkey>>, subkey)
             ELSE None

\* enumerate_key, but a key that cannot be opened is listed as empty
enumerate_key_empty_when_missing(st, order, path) ==
    IF is_virtualization_root(path)
    THEN Some([subkeys |-> [i \in DOMAIN order |-> RegEntry(order[i], 0)],
               values  |-> <<>>])
    ELSE LET subkey == open_key_by_path(st, path)
         IN  IF IsSome(subkey)
             THEN LET k == st[Unwrap(subkey)]
                  IN  Some([subkeys |-> [i \in DOMAIN k.subkeys |->
                                            RegEntry(k.subkeys[i], 0)],
                            values  |-> [i \in DOMAIN k.values |->
                                            RegEntry(k.values[i].name,
                                                     Len(k.values[i].bytes))]])
             ELSE Some([subkeys |-> <<>>, values |-> <<>>])

\* enumerate_key, but the root keys are listed as values of the root
enumerate_key_roots_as_values(st, order, path) ==
    IF is_virtualization_root(path)
    THEN Some([subkeys |-> <<>>,
               values  |-> [i \in DOMAIN order |-> RegEntry(order[i], 0)]])
    ELSE LET subkey == open_key_by_path(st, path)
         IN  IF IsSome(subkey)
             THEN LET k == st[Unwrap(subkey)]
                  IN  Some([subkeys |-> [i \in DOMAIN k.subkeys |->
                                            RegEntry(k.subkeys[i], 0)],
                            values  |-> [i \in DOMAIN k.values |->
                                            RegEntry(k.values[i].name,
                                                     Len(k.values[i].bytes))]])
             ELSE None

enumerate_key(st, order, path) ==
    IF is_virtualization_root(path)
    THEN Some([subkeys |-> [i \in DOMAIN order |-> RegEntry(order[i], 0)],
               values  |-> <<>>])
    ELSE LET subkey == open_key_by_path(st, path)
         IN  IF IsSome(subkey)
             THEN LET k == st[Unwrap(subkey)]
                  IN  Some([subkeys |-> [i \in DOMAIN k.subkeys |->
                                            RegEntry(k.subkeys[i], 0)],
                            values  |-> [i \in DOMAIN k.values |->
                                            RegEntry(k.values[i].name,
                                                     Len(k.values[i].bytes))]])
             ELSE None

\* read_value, but the value is looked for in the root key of the path
read_value_in_root_key(st, path) ==
    IF Len(path) <= 1
    THEN None
    ELSE LET value  == path[Len(path)]
             subkey == <<Head(path)>>
             key    == open_key_by_path(st, subkey)
         IN  IF IsSome(key) THEN get_raw_value(st, Unwrap(key), value) ELSE None

read_value(st, path) ==
    IF Len(path) <= 1
    THEN None
    ELSE LET value  == path[Len(path)]
             subkey == SubSeq(path, 1, Len(path) - 1)
             key    == open_key_by_path(st, subkey)
         IN  IF IsSome(key) THEN get_raw_value(st, Unwrap(key), value) ELSE None

does_key_exist(st, path) == IsSome(open_key_by_path(st, path))

does_value_exist(st, path) ==
    IF IsSome(read_value(st, path))
    THEN Some(Len(Unwrap(read_value(st, path))))
    ELSE None

(***************************************************************************)
(* dirinfo.rs: the enumeration cache                                       *)
(***************************************************************************)
DirEntry(filename, size, is_directory) ==
    [filename |-> filename, is_directory |-> is_directory, size |-> size]

DirInfo_new(path) ==
    [path |-> path, index |-> 0, filled |-> FALSE, entries |-> <<>>]

\* reset, but only the cursor goes back
reset_cursor_only(d) == [d EXCEPT !.index = 0]

reset(d) == [d EXCEPT !.index = 0, !.filled = FALSE, !.entries = <<>>]
\* filled, but the cache never counts as filled
never_filled(d) == FALSE

filled(d) == d.filled

current_is_valid(d) == d.index < Len(d.entries)

\* the index is 0-based in the code, sequences are 1-based here
current_file_name(d) == d.entries[d.index + 1].filename

current_basic_info(d) ==
    [IsDirectory |-> d.entries[d.index + 1].is_directory,
     FileSize    |-> d.entries[d.index + 1].size]

\* move_next, but the cursor skips an entry
move_next_by_two(d) == [d EXCEPT !.index = d.index + 2]

move_next(d) == [d EXCEPT !.index = d.index + 1]

fill_item_entry(d, filename, size, is_directory) ==
    [d EXCEPT !.entries = Append(d.entries, DirEntry(filename, size, is_directory))]

fill_dir_entry(d, name) == fill_item_entry(d, name, 0, TRUE)

fill_file_entry(d, name, size) == fill_item_entry(d, name, size, FALSE)

\* the comparator handed to sort_by
EntryOrdering(a, b) ==
    LET result == PrjFileNameCompare(a.filename, b.filename)
    IN  IF result < 0 THEN "Less" ELSE IF result = 0 THEN "Equal" ELSE "Greater"

RECURSIVE InsertStable(_, _)
\* e goes behind every entry that is not greater than it
InsertStable(sorted, e) ==
    IF sorted = <<>> THEN <<e>>
    ELSE IF EntryOrdering(e, Head(sorted)) = "Less"
         THEN <<e>> \o sorted
         ELSE <<Head(sorted)>> \o InsertStable(Tail(sorted), e)

RECURSIVE StableSort(_)
\* slice::sort_by: a stable sort
StableSort(entries) ==
    IF entries = <<>> THEN <<>>
    ELSE InsertStable(StableSort(SubSeq(entries, 1, Len(entries) - 1)),
                      entries[Len(entries)])
\* sort_entries_and_mark_filled, but the entries stay in fill order
mark_filled_without_sort(d) ==
    [d EXCEPT !.filled = TRUE]

sort_entries_and_mark_filled(d) ==
    [d EXCEPT !.filled = TRUE, !.entries = StableSort(d.entries)]

(***************************************************************************)
(* Inputs of the host                                                      *)
(***************************************************************************)
\* enumeration ids (GUIDs) the host uses
Ids == {"guid1", "guid2"}

\* paths the host asks about: the root, root keys, keys, values, misses
Paths ==
    { <<>>, <<HKLM>>, <<"hkey_local_machine">>, <<HKLM, "software">>,
      <<HKLM, "Version">>, <<HKLM, "nokey">>, <<HKLM, "SOFTWARE", "count">> }

\* paths the host reads file data of
FilePaths ==
    { <<HKLM>>, <<HKLM, "software">>, <<HKLM, "Version">>, <<HKLM, "nokey">> }

\* directories the host enumerates
DirPaths == { <<>>, <<HKLM>>, <<HKLM, "software">> }

\* paths the translator is asked about directly: every path of up to three
\* components made of these names
QueryRoots == {HKLM, "hkey_local_machine", HKCR, "nokey"}
QueryKeys == {"SOFTWARE", "software", "Alpha", "Version", "nokey"}
QueryLeaves == {"Count", "count", "Version", "nokey"}

QueryPaths ==
    {<<>>} \cup {<<r>> : r \in QueryRoots}
           \cup {<<r, k>> : r \in QueryRoots, k \in QueryKeys}
           \cup {<<r, k, v>> : r \in QueryRoots, k \in QueryKeys, v \in QueryLeaves}

\* how many entries the host's directory buffer accepts in one call: a few,
\* or every root key at once
Rooms == 0..MaxCap \cup {Cardinality(keymap)}

\* statuses the host's own primitives may return
HostStatuses == {"S_OK", "E_FAIL"}

NotificationKinds ==
    { "FILE_OPENED", "FILE_HANDLE_CLOSED_FILE_MODIFIED", "FILE_OVERWRITTEN",
      "NEW_FILE_CREATED", "FILE_RENAMED", "FILE_HANDLE_CLOSED_FILE_DELETED",
      "PRE_RENAME", "PRE_DELETE", "FILE_PRE_CONVERT_TO_FULL",
      "PRE_SET_HARDLINK", "HARDLINK_CREATED",
      "FILE_HANDLE_CLOSED_NO_MODIFICATION" }

(***************************************************************************)
(* State                                                                   *)
(***************************************************************************)
VARIABLES
    enum_sessions,  \* State.enum_sessions: enumeration id -> DirInfo
    registry,       \* the name of the state the registry is in now
    hostListing,    \* enumeration id -> entries the host has received since
                    \* the enumeration was started or last restarted
    call,           \* the last callback: its arguments and what it did
    alive,          \* FALSE once a panic has taken the process down
    lock,           \* RegFs.state: the thread that holds the Mutex, if any
    threads         \* host thread -> the callback it is in and where

vars == <<enum_sessions, registry, hostListing, call, alive, lock, threads>>

\* the registry, as it is now
store == Stores[registry]

\* RegFs::new sets readonly
readonly == TRUE

NoCall ==
    [op |-> "none", id |-> "", path |-> <<>>, expr |-> "", restart |-> FALSE,
     kind |-> "", offset |-> 0, length |-> 0,
     result |-> "", written |-> <<>>, full |-> FALSE, filledNow |-> FALSE,
     present |-> FALSE,
     acquired |-> 0, released |-> 0, reads |-> 0,
     delivered |-> None, placeholder |-> None, hostStatus |-> "",
     answer |-> None, exists |-> FALSE]

\* the host threads that run callbacks at the same time
Threads == {"t1", "t2"}

\* the Mutex is free
NoThread == "none"

\* a thread that is in no callback
Idle == [pc |-> "idle", op |-> "", id |-> ""]

Put(f, k, v) == [x \in DOMAIN f \cup {k} |-> IF x = k THEN v ELSE f[x]]
Remove(f, k) == [x \in DOMAIN f \ {k} |-> f[x]]

Init ==
    /\ enum_sessions = << >>
    /\ registry = "A"
    /\ hostListing = << >>
    /\ call = NoCall
    /\ alive = TRUE
    /\ lock = NoThread
    /\ threads = [t \in Threads |-> Idle]

(***************************************************************************)
(* regfs.rs: the provider dispatcher                                       *)
(***************************************************************************)
RECURSIVE FillSubkeys(_, _, _)
\* the loop over entries.subkeys
FillSubkeys(d, subkeys, search_expression) ==
    IF subkeys = <<>> THEN d
    ELSE FillSubkeys(IF PrjFileNameMatch(Head(subkeys).name, search_expression)
                     THEN fill_dir_entry(d, Head(subkeys).name)
                     ELSE d,
                     Tail(subkeys), search_expression)
RECURSIVE FillValuesUnfiltered(_, _, _)
\* FillValues, but every value is appended whatever its name
FillValuesUnfiltered(d, values, search_expression) ==
    IF values = <<>> THEN d
    ELSE FillValuesUnfiltered(
             fill_file_entry(d, Head(values).name, Head(values).size),
             Tail(values), search_expression)

RECURSIVE FillValues(_, _, _)
\* the loop over entries.values
FillValues(d, values, search_expression) ==
    IF values = <<>> THEN d
    ELSE FillValues(IF PrjFileNameMatch(Head(values).name, search_expression)
                    THEN fill_file_entry(d, Head(values).name, Head(values).size)
                    ELSE d,
                    Tail(values), search_expression)

\* returns whether the key was found, and the cache after the appends
populate_dir_info_for_path(st, order, path, dirinfo, search_expression) ==
    LET entries == enumerate_key(st, order, path)
    IN  IF IsSome(entries)
        THEN [ok |-> TRUE,
              dirinfo |-> FillValues(
                              FillSubkeys(dirinfo, Unwrap(entries).subkeys,
                                          search_expression),
                              Unwrap(entries).values, search_expression)]
        ELSE [ok |-> FALSE, dirinfo |-> dirinfo]

\* the host's buffer accepts an entry while it has room
PrjFillDirEntryBuffer(room) == IF room > 0 THEN "S_OK" ELSE "ERROR_INSUFFICIENT_BUFFER"
RECURSIVE DrainLoopSkipsOnFull(_, _, _)
\* DrainLoop, but the cursor moves past the entry the buffer refused
DrainLoopSkipsOnFull(d, room, written) ==
    IF current_is_valid(d)
    THEN IF PrjFillDirEntryBuffer(room) # "S_OK"
         THEN [dirinfo |-> move_next(d), written |-> written, full |-> TRUE]
         ELSE DrainLoopSkipsOnFull(move_next(d), room - 1,
                        Append(written,
                               [name |-> current_file_name(d),
                                info |-> current_basic_info(d)]))
    ELSE [dirinfo |-> d, written |-> written, full |-> FALSE]

RECURSIVE DrainLoop(_, _, _)
\* the while loop of get_dir_enum: the cache, the entries written and
\* whether the buffer refused an entry
DrainLoop(d, room, written) ==
    IF current_is_valid(d)
    THEN IF PrjFillDirEntryBuffer(room) # "S_OK"
         THEN [dirinfo |-> d, written |-> written, full |-> TRUE]
         ELSE DrainLoop(move_next(d), room - 1,
                        Append(written,
                               [name |-> current_file_name(d),
                                info |-> current_basic_info(d)]))
    ELSE [dirinfo |-> d, written |-> written, full |-> FALSE]

\* start_dir_enum, but a session that is in the table already is kept
start_dir_enum_keeps_existing(id, path) ==
    /\ alive
    /\ enum_sessions' = IF id \in DOMAIN enum_sessions THEN enum_sessions
                        ELSE Put(enum_sessions, id, DirInfo_new(path))
    /\ hostListing' = IF id \in DOMAIN enum_sessions THEN hostListing
                      ELSE Put(hostListing, id, <<>>)
    /\ call' = [NoCall EXCEPT !.op = "start_dir_enum", !.id = id, !.path = path,
                              !.present = id \in DOMAIN enum_sessions,
                              !.result = "S_OK"]
    /\ UNCHANGED <<registry, alive>>

start_dir_enum(id, path) ==
    /\ alive
    /\ enum_sessions' = Put(enum_sessions, id, DirInfo_new(path))
    /\ hostListing' = Put(hostListing, id, <<>>)
    /\ call' = [NoCall EXCEPT !.op = "start_dir_enum", !.id = id, !.path = path,
                              !.present = id \in DOMAIN enum_sessions,
                              !.result = "S_OK"]
    /\ UNCHANGED <<registry, alive>>
\* end_dir_enum, but every session is taken out of the table
end_dir_enum_clears_table(id) ==
    /\ alive
    /\ enum_sessions' = << >>
    /\ hostListing' = << >>
    /\ call' = [NoCall EXCEPT !.op = "end_dir_enum", !.id = id,
                              !.present = id \in DOMAIN enum_sessions,
                              !.result = "S_OK"]
    /\ UNCHANGED <<registry, alive>>
\* end_dir_enum, but the session stays in the table
end_dir_enum_keeps_session(id) ==
    /\ alive
    /\ call' = [NoCall EXCEPT !.op = "end_dir_enum", !.id = id,
                              !.present = id \in DOMAIN enum_sessions,
                              !.result = "S_OK"]
    /\ UNCHANGED <<enum_sessions, hostListing, registry, alive>>

end_dir_enum(id) ==
    /\ alive
    /\ enum_sessions' = Remove(enum_sessions, id)
    /\ hostListing' = Remove(hostListing, id)
    /\ call' = [NoCall EXCEPT !.op = "end_dir_enum", !.id = id,
                              !.present = id \in DOMAIN enum_sessions,
                              !.result = "S_OK"]
    /\ UNCHANGED <<registry, alive>>

\* the result of get_dir_enum on an existing session: the cache it leaves,
\* the status, the entries written, whether the buffer refused an entry,
\* whether the call filled the cache and how often it asked the registry
get_dir_enum_session(st, order, path, session, search_expression, restart, room) ==
    LET d1 == IF restart THEN reset(session) ELSE session
    IN  IF ~filled(d1)
        THEN LET p == populate_dir_info_for_path(st, order, path, d1,
                                                 search_expression)
             IN  IF ~p.ok
                 THEN [dirinfo |-> d1, result |-> "Err", written |-> <<>>,
                       full |-> FALSE, filledNow |-> FALSE, reads |-> 1]
                 ELSE LET r == DrainLoop(sort_entries_and_mark_filled(p.dirinfo),
                                         room, <<>>)
                      IN  [dirinfo |-> r.dirinfo, result |-> "S_OK",
                           written |-> r.written, full |-> r.full,
                           filledNow |-> TRUE, reads |-> 1]
        ELSE LET r == DrainLoop(d1, room, <<>>)
             IN  [dirinfo |-> r.dirinfo, result |-> "S_OK",
                  written |-> r.written, full |-> r.full,
                  filledNow |-> FALSE, reads |-> 0]

\* the host passes the path of the directory the enumeration was started on
get_dir_enum(id, path, search_expression, restart, room, order) ==
    /\ alive
    /\ id \in DOMAIN enum_sessions => path = enum_sessions[id].path
    /\ IF id \notin DOMAIN enum_sessions
       THEN /\ call' = [NoCall EXCEPT !.op = "get_dir_enum", !.id = id,
                            !.path = path, !.expr = search_expression,
                            !.restart = restart, !.result = "E_INVALIDARG"]
            /\ UNCHANGED <<enum_sessions, hostListing>>
       ELSE \E r \in {get_dir_enum_session(store, order, path, enum_sessions[id],
                                          search_expression, restart, room)} :
                /\ enum_sessions' = [enum_sessions EXCEPT ![id] = r.dirinfo]
                /\ hostListing' = [hostListing EXCEPT ![id] =
                                      (IF restart THEN <<>> ELSE @) \o r.written]
                /\ call' = [NoCall EXCEPT !.op = "get_dir_enum", !.id = id,
                                !.path = path, !.expr = search_expression,
                                !.restart = restart, !.present = TRUE,
                                !.reads = r.reads, !.result = r.result,
                                !.written = r.written, !.full = r.full,
                                !.filledNow = r.filledNow]
    /\ UNCHANGED <<registry, alive>>
\* placeholder_for, but a value is looked for before a key
placeholder_for_value_first(st, path) ==
    IF IsSome(does_value_exist(st, path))
    THEN Some([IsDirectory |-> FALSE,
               FileSize |-> Unwrap(does_value_exist(st, path))])
    ELSE IF does_key_exist(st, path)
         THEN Some([IsDirectory |-> TRUE, FileSize |-> 0])
         ELSE None

\* what get_placeholder_info decides for a path: NotFound, or the
\* PRJ_PLACEHOLDER_INFO it hands to PrjWritePlaceholderInfo
placeholder_for(st, path) ==
    LET size == IF does_key_exist(st, path) THEN Some(None)
                ELSE IF IsSome(does_value_exist(st, path))
                     THEN Some(Some(Unwrap(does_value_exist(st, path))))
                ELSE None
    IN  IF ~IsSome(size) THEN None
        ELSE IF IsSome(Unwrap(size))
             THEN Some([IsDirectory |-> FALSE, FileSize |-> Unwrap(Unwrap(size))])
             ELSE Some([IsDirectory |-> TRUE, FileSize |-> 0])

\* hostStatus is what PrjWritePlaceholderInfo returns when it is called
get_placeholder_info(path, hostStatus) ==
    /\ alive
    /\ \E placeholder \in {placeholder_for(store, path)} :
           call' = IF IsSome(placeholder)
                   THEN [NoCall EXCEPT !.op = "get_placeholder_info",
                             !.path = path, !.placeholder = placeholder,
                             !.hostStatus = hostStatus, !.result = hostStatus]
                   ELSE [NoCall EXCEPT !.op = "get_placeholder_info",
                             !.path = path, !.result = "ERROR_FILE_NOT_FOUND"]
    /\ UNCHANGED <<enum_sessions, registry, hostListing, alive>>

\* slice::copy_from_slice panics unless both slices have the same length
copy_from_slice(length, src) ==
    IF Len(src) # length THEN "panic" ELSE src
\* file_data_for, but a missing value is handed to the host as it is
file_data_for_delivers_absent(st, path, offset, length, hostStatus) ==
    LET bytes == read_value(st, path)
    IN  IF IsSome(bytes) /\ copy_from_slice(length, Unwrap(bytes)) = "panic"
        THEN [result |-> "panic", delivered |-> None, released |-> 0]
        ELSE [result |-> hostStatus,
              delivered |-> Some([buffer |-> IF IsSome(bytes) THEN Unwrap(bytes)
                                            ELSE <<>>,
                                  offset |-> offset, length |-> length]),
              released |-> 1]

\* what get_file_data does once the buffer is allocated: the status, the
\* buffer handed to PrjWriteFileData (if it is), and how often the buffer is
\* freed
file_data_for(st, path, offset, length, hostStatus) ==
    LET bytes == read_value(st, path)
    IN  IF IsSome(bytes)
        THEN LET buffer == copy_from_slice(length, Unwrap(bytes))
             IN  IF buffer = "panic"
                 THEN [result |-> "panic", delivered |-> None, released |-> 0]
                 ELSE [result |-> hostStatus,
                       delivered |-> Some([buffer |-> buffer, offset |-> offset,
                                           length |-> length]),
                       released |-> 1]
        ELSE [result |-> "ERROR_FILE_NOT_FOUND", delivered |-> None,
              released |-> 1]

\* allocated: whether PrjAllocateAlignedBuffer returns a buffer; hostStatus:
\* what PrjWriteFileData returns when it is called; survives: whether the
\* process outlives a panic in the callback
get_file_data(path, offset, length, allocated, hostStatus, survives) ==
    /\ alive
    /\ IF ~allocated
       THEN /\ call' = [NoCall EXCEPT !.op = "get_file_data", !.path = path,
                            !.offset = offset, !.length = length,
                            !.result = "E_OUTOFMEMORY"]
            /\ alive' = alive
       ELSE \E r \in {file_data_for(store, path, offset, length, hostStatus)} :
                /\ call' = [NoCall EXCEPT !.op = "get_file_data", !.path = path,
                                !.offset = offset, !.length = length,
                                !.acquired = 1, !.reads = 1,
                                !.released = r.released,
                                !.delivered = r.delivered,
                                !.hostStatus = IF IsSome(r.delivered)
                                               THEN hostStatus ELSE "",
                                !.result = r.result]
                /\ alive' = IF r.result = "panic" THEN survives ELSE alive
    /\ UNCHANGED <<enum_sessions, registry, hostListing>>
\* notify_result, but the read-only test of pre-delete is inverted
notify_result_allows_delete(notification_type) ==
    CASE notification_type = "PRE_RENAME" ->
            IF readonly THEN "ERROR_ACCESS_DENIED" ELSE "S_OK"
      [] notification_type = "PRE_DELETE" ->
            IF ~readonly THEN "ERROR_ACCESS_DENIED" ELSE "S_OK"
      [] OTHER -> "S_OK"

notify_result(notification_type) ==
    CASE notification_type = "FILE_OPENED" -> "S_OK"
      [] notification_type \in {"FILE_HANDLE_CLOSED_FILE_MODIFIED",
                                "FILE_OVERWRITTEN"} -> "S_OK"
      [] notification_type = "NEW_FILE_CREATED" -> "S_OK"
      [] notification_type = "FILE_RENAMED" -> "S_OK"
      [] notification_type = "FILE_HANDLE_CLOSED_FILE_DELETED" -> "S_OK"
      [] notification_type = "PRE_RENAME" ->
            IF readonly THEN "ERROR_ACCESS_DENIED" ELSE "S_OK"
      [] notification_type = "PRE_DELETE" ->
            IF readonly THEN "ERROR_ACCESS_DENIED" ELSE "S_OK"
      [] notification_type = "FILE_PRE_CONVERT_TO_FULL" -> "S_OK"
      [] OTHER -> "S_OK"

notify(notification_type) ==
    /\ alive
    /\ call' = [NoCall EXCEPT !.op = "notify", !.kind = notification_type,
                    !.result = notify_result(notification_type)]
    /\ UNCHANGED <<enum_sessions, registry, hostListing, alive>>

query_file_name ==
    /\ alive
    /\ call' = [NoCall EXCEPT !.op = "query_file_name", !.result = "S_OK"]
    /\ UNCHANGED <<enum_sessions, registry, hostListing, alive>>

cancel_command ==
    /\ alive
    /\ call' = [NoCall EXCEPT !.op = "cancel_command", !.result = "Ok"]
    /\ UNCHANGED <<enum_sessions, registry, hostListing, alive>>

\* another process edits the registry between two callbacks
RegistryChange(r) ==
    /\ alive
    /\ r # registry
    /\ registry' = r
    /\ call' = [NoCall EXCEPT !.op = "registry_change"]
    /\ UNCHANGED <<enum_sessions, hostListing, alive>>

\* the enumeration protocol, against a registry that changes
Next ==
    /\ UNCHANGED <<lock, threads>>
    /\ \/ \E id \in Ids, path \in DirPaths : start_dir_enum(id, path)
       \/ \E id \in Ids : end_dir_enum(id)
       \/ \E id \in Ids, path \in DirPaths, e \in Exprs, restart \in BOOLEAN,
             room \in Rooms :
               \E order \in OrdersFor(path) :
                   get_dir_enum(id, path, e, restart, room, order)
       \/ \E r \in DOMAIN Stores : RegistryChange(r)

Spec == Init /\ [][Next]_vars

\* the callbacks keyed by a path or by nothing; none of them reads the
\* session table, which start_dir_enum and end_dir_enum populate here
PathNext ==
    /\ UNCHANGED <<lock, threads>>
    /\ \/ \E id \in Ids, path \in DirPaths : start_dir_enum(id, path)
       \/ \E id \in Ids : end_dir_enum(id)
       \/ \E path \in Paths, hostStatus \in HostStatuses :
               get_placeholder_info(path, hostStatus)
       \/ \E path \in FilePaths, offset \in 0..MaxOffset,
             length \in 1..MaxLength, allocated \in BOOLEAN,
             hostStatus \in HostStatuses, survives \in BOOLEAN :
               get_file_data(path, offset, length, allocated, hostStatus,
                             survives)
       \/ \E kind \in NotificationKinds : notify(kind)
       \/ query_file_name
       \/ cancel_command
       \/ \E r \in DOMAIN Stores : RegistryChange(r)

SpecPath == Init /\ [][PathNext]_vars

\* the public functions of RegOps, each called on its own as the tests at
\* the end of regop.rs do
RegOps_enumerate_key(path, order) ==
    /\ alive
    /\ call' = [NoCall EXCEPT !.op = "enumerate_key", !.path = path,
                              !.answer = enumerate_key(store, order, path)]
    /\ UNCHANGED <<enum_sessions, registry, hostListing, alive>>

RegOps_read_value(path) ==
    /\ alive
    /\ call' = [NoCall EXCEPT !.op = "read_value", !.path = path,
                              !.answer = read_value(store, path)]
    /\ UNCHANGED <<enum_sessions, registry, hostListing, alive>>

RegOps_does_key_exist(path) ==
    /\ alive
    /\ call' = [NoCall EXCEPT !.op = "does_key_exist", !.path = path,
                              !.exists = does_key_exist(store, path)]
    /\ UNCHANGED <<enum_sessions, registry, hostListing, alive>>

RegOps_does_value_exist(path) ==
    /\ alive
    /\ call' = [NoCall EXCEPT !.op = "does_value_exist", !.path = path,
                              !.answer = does_value_exist(store, path)]
    /\ UNCHANGED <<enum_sessions, registry, hostListing, alive>>

\* the path translator on its own, against a registry that changes
RegOpsNext ==
    /\ UNCHANGED <<lock, threads>>
    /\ \/ \E path \in QueryPaths :
               \E order \in OrdersFor(path) : RegOps_enumerate_key(path, order)
       \/ \E path \in QueryPaths : RegOps_read_value(path)
       \/ \E path \in QueryPaths : RegOps_does_key_exist(path)
       \/ \E path \in QueryPaths : RegOps_does_value_exist(path)
       \/ \E r \in DOMAIN Stores : RegistryChange(r)

SpecRegOps == Init /\ [][RegOpsNext]_vars

(***************************************************************************)
(* regfs.rs, statement by statement: the enumeration callbacks run by      *)
(* several host threads at once.  Every callback takes &self; the session  *)
(* table is behind RegFs.state, a Mutex, and a MutexGuard releases it when *)
(* it goes out of scope.  An argument of a callback other than the         *)
(* enumeration id is drawn at the statement that reads it.                 *)
(***************************************************************************)
\* directories and search expressions the concurrent callbacks are given
ThreadPaths == {<<HKLM>>, <<HKLM, "nokey">>}
ThreadExprs == {"s*"}

At(t, pc) == threads[t].pc = pc

Goto(t, pc) == threads' = [threads EXCEPT ![t].pc = pc]

\* the host calls the callback op for the enumeration id on thread t
Call(t, op, id, pc) ==
    threads' = [threads EXCEPT ![t] = [pc |-> pc, op |-> op, id |-> id]]

\* the callback of t returns: its arguments and locals are gone
Return(t) == threads' = [threads EXCEPT ![t] = Idle]

T_start_call(t, id) ==
    /\ At(t, "idle")
    /\ Call(t, "start_dir_enum", id, "start_lock")
    /\ UNCHANGED <<enum_sessions, registry, hostListing, call, alive, lock>>

\* self.state.lock().unwrap()
T_start_lock(t) ==
    /\ At(t, "start_lock")
    /\ lock = NoThread
    /\ lock' = t
    /\ Goto(t, "start_insert")
    /\ UNCHANGED <<enum_sessions, registry, hostListing, call, alive>>

\* .enum_sessions.insert(guid, DirInfo::new(filepath)); the temporary guard
\* is dropped at the end of the statement
T_start_insert(t, path) ==
    /\ At(t, "start_insert")
    /\ enum_sessions' = Put(enum_sessions, threads[t].id, DirInfo_new(path))
    /\ hostListing' = Put(hostListing, threads[t].id, <<>>)
    /\ lock' = NoThread
    /\ Return(t)
    /\ UNCHANGED <<registry, call, alive>>

T_end_call(t, id) ==
    /\ At(t, "idle")
    /\ Call(t, "end_dir_enum", id, "end_lock")
    /\ UNCHANGED <<enum_sessions, registry, hostListing, call, alive, lock>>

\* let mut state = self.state.lock()...
T_end_lock(t) ==
    /\ At(t, "end_lock")
    /\ lock = NoThread
    /\ lock' = t
    /\ Goto(t, "end_remove")
    /\ UNCHANGED <<enum_sessions, registry, hostListing, call, alive>>

\* state.enum_sessions.remove(&guid); Ok(0) drops the guard
T_end_remove(t) ==
    /\ At(t, "end_remove")
    /\ enum_sessions' = Remove(enum_sessions, threads[t].id)
    /\ hostListing' = Remove(hostListing, threads[t].id)
    /\ lock' = NoThread
    /\ Return(t)
    /\ UNCHANGED <<registry, call, alive>>

T_get_call(t, id) ==
    /\ At(t, "idle")
    /\ Call(t, "get_dir_enum", id, "get_lock")
    /\ UNCHANGED <<enum_sessions, registry, hostListing, call, alive, lock>>

\* let mut state = self.state.lock()...: the guard lives until the function
\* returns
T_get_lock(t) ==
    /\ At(t, "get_lock")
    /\ lock = NoThread
    /\ lock' = t
    /\ Goto(t, "get_lookup")
    /\ UNCHANGED <<enum_sessions, registry, hostListing, call, alive>>

\* T_get_lookup, but the return for a missing id leaves the Mutex locked
T_get_lookup_keeps_lock(t) ==
    /\ At(t, "get_lookup")
    /\ IF threads[t].id \in DOMAIN enum_sessions
       THEN Goto(t, "get_restart")
       ELSE Return(t)
    /\ UNCHANGED <<enum_sessions, registry, hostListing, call, alive, lock>>

\* state.enum_sessions.get_mut(&guid); None => return Ok(E_INVALIDARG)
T_get_lookup(t) ==
    /\ At(t, "get_lookup")
    /\ IF threads[t].id \in DOMAIN enum_sessions
       THEN Goto(t, "get_restart") /\ UNCHANGED lock
       ELSE Return(t) /\ lock' = NoThread
    /\ UNCHANGED <<enum_sessions, registry, hostListing, call, alive>>

\* if data.Flags & PRJ_CB_DATA_FLAG_ENUM_RESTART_SCAN != 0 { dirinfo.reset() }
T_get_restart(t, restart) ==
    /\ At(t, "get_restart")
    /\ IF restart
       THEN /\ enum_sessions' = [enum_sessions EXCEPT ![threads[t].id] = reset(@)]
            /\ hostListing' = [hostListing EXCEPT ![threads[t].id] = <<>>]
       ELSE UNCHANGED <<enum_sessions, hostListing>>
    /\ Goto(t, "get_fill")
    /\ UNCHANGED <<registry, call, alive, lock>>

\* if !dirinfo.filled() { if !populate... { return Err(...) };
\* sort_entries_and_mark_filled() }; the host passes the path the
\* enumeration was started on
T_get_fill(t, search_expression, order) ==
    /\ At(t, "get_fill")
    /\ IF filled(enum_sessions[threads[t].id])
       THEN /\ Goto(t, "get_drain")
            /\ UNCHANGED <<enum_sessions, lock>>
       ELSE \E p \in {populate_dir_info_for_path(
                          store, order, enum_sessions[threads[t].id].path,
                          enum_sessions[threads[t].id], search_expression)} :
                IF p.ok
                THEN /\ enum_sessions' =
                          [enum_sessions EXCEPT ![threads[t].id] =
                              sort_entries_and_mark_filled(p.dirinfo)]
                     /\ Goto(t, "get_drain")
                     /\ UNCHANGED lock
                ELSE /\ Return(t)
                     /\ lock' = NoThread
                     /\ UNCHANGED enum_sessions
    /\ UNCHANGED <<registry, hostListing, call, alive>>

\* one turn of the while loop; room is the room the buffer has left
T_get_drain(t, room) ==
    /\ At(t, "get_drain")
    /\ \E d \in {enum_sessions[threads[t].id]} :
           IF current_is_valid(d) /\ PrjFillDirEntryBuffer(room) = "S_OK"
           THEN /\ enum_sessions' =
                      [enum_sessions EXCEPT ![threads[t].id] = move_next(d)]
                /\ hostListing' =
                      [hostListing EXCEPT ![threads[t].id] =
                          Append(@, [name |-> current_file_name(d),
                                     info |-> current_basic_info(d)])]
                /\ UNCHANGED threads
           ELSE /\ Goto(t, "get_return")
                /\ UNCHANGED <<enum_sessions, hostListing>>
    /\ UNCHANGED <<registry, call, alive, lock>>

\* Ok(S_OK): the guard is dropped
T_get_return(t) ==
    /\ At(t, "get_return")
    /\ lock' = NoThread
    /\ Return(t)
    /\ UNCHANGED <<enum_sessions, registry, hostListing, call, alive>>

\* the statements in which t takes the Mutex
LockStep(t) == T_start_lock(t) \/ T_end_lock(t) \/ T_get_lock(t)

\* the other statements of the callback t is in
RunStep(t) ==
    \/ \E path \in ThreadPaths : T_start_insert(t, path)
    \/ T_end_remove(t)
    \/ T_get_lookup(t)
    \/ \E restart \in BOOLEAN : T_get_restart(t, restart)
    \/ /\ At(t, "get_fill")
       /\ \E e \in ThreadExprs :
             \E order \in OrdersFor(enum_sessions[threads[t].id].path) :
                 T_get_fill(t, e, order)
    \/ \E room \in 0..MaxCap : T_get_drain(t, room)
    \/ T_get_return(t)

\* the host calls a callback on a thread that is free
CallStep(t) ==
    \/ \E id \in Ids : T_start_call(t, id)
    \/ \E id \in Ids : T_end_call(t, id)
    \/ \E id \in Ids : T_get_call(t, id)

ThreadNext ==
    \/ \E t \in Threads : CallStep(t)
    \/ \E t \in Threads : LockStep(t)
    \/ \E t \in Threads : RunStep(t)

SpecThreads == Init /\ [][ThreadNext]_vars

\* fair scheduling: a thread that can run its next statement runs it, and a
\* thread that waits for the Mutex gets it if it is free again and again;
\* the host is free to stop calling
Fairness ==
    \A t \in Threads : WF_vars(RunStep(t)) /\ SF_vars(LockStep(t))

FairSpecThreads == SpecThreads /\ Fairness

TypeOK ==
    /\ DOMAIN enum_sessions \subseteq Ids
    /\ DOMAIN hostListing = DOMAIN enum_sessions
    /\ registry \in DOMAIN Stores
    /\ alive \in BOOLEAN

(***************************************************************************)
(* Vocabulary of the properties                                            *)
(***************************************************************************)
\* an entry as the host receives it
HostView(e) ==
    [name |-> e.filename,
     info |-> [IsDirectory |-> e.is_directory, FileSize |-> e.size]]

HostViews(entries) == [i \in DOMAIN entries |-> HostView(entries[i])]

\* ascending in the host's collation
IsSorted(entries) ==
    \A i, j \in DOMAIN entries :
        i < j => PrjFileNameCompare(entries[i].filename, entries[j].filename) <= 0

Count(seq, x) == Cardinality({i \in DOMAIN seq : seq[i] = x})

\* the same elements, each as often
SameBag(s, t) ==
    \E a \in {s}, b \in {t} :
        /\ Len(a) = Len(b)
        /\ \A i \in DOMAIN a : Count(a, a[i]) = Count(b, a[i])

\* whether a directory path resolves in a registry
Resolves(st, path) ==
    IsSome(enumerate_key(st, CHOOSE order \in KeymapOrders : TRUE, path))

\* the children a registry lists for a resolvable path, as directory entries
Children(st, path) ==
    LET listing == Unwrap(enumerate_key(st, CHOOSE order \in KeymapOrders : TRUE,
                                        path))
    IN  [i \in DOMAIN listing.subkeys |->
            DirEntry(listing.subkeys[i].name, 0, TRUE)]
        \o
        [i \in DOMAIN listing.values |->
            DirEntry(listing.values[i].name, listing.values[i].size, FALSE)]

\* the children whose name satisfies the search expression
MatchingChildren(st, path, search_expression) ==
    LET Matches(e) == PrjFileNameMatch(e.filename, search_expression)
    IN  SelectSeq(Children(st, path), Matches)

\* this step is a get_dir_enum on a session that is in the table
GetOnSession ==
    /\ call'.op = "get_dir_enum"
    /\ call'.id \in DOMAIN enum_sessions

\* the cursor a get_dir_enum step starts to write from
StartIndex ==
    IF call'.filledNow THEN 0 ELSE enum_sessions[call'.id].index

(***************************************************************************)
(* C1: paging.  Whatever the host's buffer accepts per call, the entries   *)
(* written since the enumeration was started or restarted are, in order,   *)
(* the first `index` entries of the cache, and the cache of a call that    *)
(* fills is the sorted list of the matching children; a call writes the    *)
(* entries from the old cursor to the new one, succeeds also when the      *)
(* buffer is full, and on an exhausted session writes nothing and          *)
(* succeeds.                                                               *)
(***************************************************************************)
C1_Prefix ==
    \A id \in DOMAIN enum_sessions :
        LET d == enum_sessions[id]
        IN  d.filled =>
                /\ d.index <= Len(d.entries)
                /\ hostListing[id] = HostViews(SubSeq(d.entries, 1, d.index))

C1_Step ==
    (GetOnSession /\ (\/ enum_sessions[call'.id].filled /\ ~call'.restart
                      \/ Resolves(store, call'.path))) =>
        LET id == call'.id
            d  == enum_sessions'[id]
        IN  /\ call'.result = "S_OK"
            /\ d.filled
            /\ call'.filledNow =>
                  /\ IsSorted(d.entries)
                  /\ SameBag(d.entries,
                             MatchingChildren(store, call'.path, call'.expr))
            /\ ~call'.filledNow => d.entries = enum_sessions[id].entries
            /\ d.index = StartIndex + Len(call'.written)
            /\ call'.written = HostViews(SubSeq(d.entries, StartIndex + 1, d.index))
            /\ (~call'.restart /\ enum_sessions[id].filled
                  /\ enum_sessions[id].index = Len(enum_sessions[id].entries)) =>
                  /\ call'.written = <<>>
                  /\ d = enum_sessions[id]

C1_Draining == []C1_Prefix /\ [][C1_Step]_vars

\* an enumeration of four entries has been drained in several calls, and the
\* call after the last entry wrote nothing
C1_Witness ==
    /\ call.op = "get_dir_enum"
    /\ ~call.restart
    /\ call.result = "S_OK"
    /\ call.written = <<>>
    /\ call.id \in DOMAIN enum_sessions
    /\ LET d == enum_sessions[call.id]
       IN  /\ d.filled
           /\ Len(d.entries) = 4
           /\ d.index = 4
           /\ hostListing[call.id] = HostViews(d.entries)

(***************************************************************************)
(* C2: a get_dir_enum for an id that is not in the table returns           *)
(* E_INVALIDARG, writes nothing and changes nothing; end_dir_enum takes    *)
(* the id out of the table, start_dir_enum puts it in, and a get_dir_enum  *)
(* for an id in the table never returns E_INVALIDARG.                      *)
(***************************************************************************)
C2_Step ==
    /\ (call'.op = "get_dir_enum" /\ call'.id \notin DOMAIN enum_sessions) =>
          /\ call'.result = "E_INVALIDARG"
          /\ call'.written = <<>>
          /\ enum_sessions' = enum_sessions
          /\ hostListing' = hostListing
          /\ alive' = alive
    /\ GetOnSession => call'.result # "E_INVALIDARG"
    /\ call'.op = "end_dir_enum" => call'.id \notin DOMAIN enum_sessions'
    /\ call'.op = "start_dir_enum" => call'.id \in DOMAIN enum_sessions'

C2_InvalidSession == [][C2_Step]_vars

\* a get_dir_enum was refused while the other session is in the table
C2_Witness ==
    /\ call.op = "get_dir_enum"
    /\ call.result = "E_INVALIDARG"
    /\ call.id \notin DOMAIN enum_sessions
    /\ DOMAIN enum_sessions # {}
    /\ \E id \in DOMAIN enum_sessions : enum_sessions[id].filled

(***************************************************************************)
(* C3: with the read-only policy, notify returns AccessDenied for          *)
(* pre-rename and pre-delete and success for every other kind, and         *)
(* changes neither the session table nor anything else.                    *)
(***************************************************************************)
C3_Step ==
    call'.op = "notify" =>
        /\ readonly
        /\ call'.result = IF call'.kind \in {"PRE_RENAME", "PRE_DELETE"}
                          THEN "ERROR_ACCESS_DENIED"
                          ELSE "S_OK"
        /\ UNCHANGED <<enum_sessions, registry, hostListing, alive>>

C3_ReadOnly == [][C3_Step]_vars

\* a pre-delete was denied while a session is in the table
C3_Witness ==
    /\ call.op = "notify"
    /\ call.kind = "PRE_DELETE"
    /\ call.result = "ERROR_ACCESS_DENIED"
    /\ DOMAIN enum_sessions # {}

(***************************************************************************)
(* C4: a filled session has its entries in ascending collation order; the  *)
(* call that fills sorts before it writes, so what it writes is the head   *)
(* of the sorted list, and a later call leaves the entries as they are; a  *)
(* directory without matching children fills to an empty list and          *)
(* succeeds.                                                               *)
(***************************************************************************)
C4_Sorted ==
    \A id \in DOMAIN enum_sessions :
        enum_sessions[id].filled => IsSorted(enum_sessions[id].entries)

C4_Step ==
    GetOnSession =>
        LET id == call'.id
            d  == enum_sessions'[id]
        IN  /\ call'.filledNow =>
                  /\ d.filled
                  /\ call'.result = "S_OK"
                  /\ call'.written = HostViews(SubSeq(d.entries, 1, Len(call'.written)))
                  /\ MatchingChildren(store, call'.path, call'.expr) = <<>> =>
                        d.entries = <<>>
            /\ (~call'.filledNow /\ call'.result = "S_OK") =>
                  d.entries = enum_sessions[id].entries

C4_Sortedness == []C4_Sorted /\ [][C4_Step]_vars

\* one session was filled from a listing that was not in order, the other
\* from a directory without matching children
C4_Witness ==
    \E id1, id2 \in DOMAIN enum_sessions :
        /\ enum_sessions[id1].filled
        /\ Len(enum_sessions[id1].entries) = 4
        /\ enum_sessions[id1].entries[1].filename = "Alpha"
        /\ enum_sessions[id1].entries[2].is_directory
        /\ ~enum_sessions[id1].entries[3].is_directory
        /\ enum_sessions[id2].filled
        /\ enum_sessions[id2].entries = <<>>

(***************************************************************************)
(* C5: the entries a call fills the cache with are the children whose name *)
(* matches the search expression of that call, each as often as the        *)
(* registry lists it, and nothing else; every entry written comes from the *)
(* cache.                                                                  *)
(***************************************************************************)
C5_Step ==
    (GetOnSession /\ call'.filledNow) =>
        LET d == enum_sessions'[call'.id]
        IN  /\ \A i \in DOMAIN d.entries :
                  PrjFileNameMatch(d.entries[i].filename, call'.expr)
            /\ \A i \in DOMAIN call'.written :
                  PrjFileNameMatch(call'.written[i].name, call'.expr)
            /\ SameBag(d.entries, MatchingChildren(store, call'.path, call'.expr))

C5_MatchFilter == [][C5_Step]_vars

\* "s*" selected a key and a value of HKEY_LOCAL_MACHINE and left out the rest
C5_Witness ==
    /\ call.op = "get_dir_enum"
    /\ call.filledNow
    /\ call.expr = "s*"
    /\ call.path = <<HKLM>>
    /\ registry = "A"
    /\ Len(enum_sessions[call.id].entries) = 2
    /\ Len(Children(store, call.path)) = 4

(***************************************************************************)
(* What a path addresses in a registry, read off the registry itself       *)
(***************************************************************************)
\* the keys a path names: the root key by its exact name, the keys below it
\* without regard to case
KeysAt(st, path) ==
    {k \in DOMAIN st : /\ Len(path) >= 1
                       /\ path[1] \in keymap
                       /\ k[1] = path[1]
                       /\ FoldPath(k) = FoldPath(path)}

ContainerAt(st, path) == KeysAt(st, path) # {}

\* the byte strings of the values a path names: the last component is the
\* name of a value of the key the components before it name
ValuesAt(st, path) ==
    IF Len(path) < 2 THEN {}
    ELSE UNION { { st[k].values[i].bytes :
                     i \in {j \in DOMAIN st[k].values :
                              FoldName(st[k].values[j].name)
                                  = FoldName(path[Len(path)])} } :
                 k \in KeysAt(st, SubSeq(path, 1, Len(path) - 1)) }

(***************************************************************************)
(* C6: for a path that names a value and a request inside the value,       *)
(* get_file_data hands the host a buffer of `length` bytes holding the     *)
(* bytes of the value from `offset` on, with the same offset and length,   *)
(* and returns the host's status.                                          *)
(***************************************************************************)
C6_RangeContent ==
    (/\ call.op = "get_file_data"
     /\ call.acquired = 1
     /\ ValuesAt(store, call.path) # {}) =>
        \A bytes \in ValuesAt(store, call.path) :
            call.offset + call.length <= Len(bytes) =>
                /\ IsSome(call.delivered)
                /\ Len(Unwrap(call.delivered).buffer) = call.length
                /\ Unwrap(call.delivered).buffer
                      = SubSeq(bytes, call.offset + 1, call.offset + call.length)
                /\ Unwrap(call.delivered).offset = call.offset
                /\ Unwrap(call.delivered).length = call.length
                /\ call.result = call.hostStatus

(***************************************************************************)
(* C7: whenever get_file_data acquired the host buffer, it has released it *)
(* exactly once when the callback ends.                                    *)
(***************************************************************************)
C7_BufferReleased ==
    (call.op = "get_file_data" /\ call.acquired = 1) => call.released = 1

(***************************************************************************)
(* C8, as stated: for a path that names no value get_file_data returns     *)
(* NotFound, does not call PrjWriteFileData and reads the registry at most *)
(* once.                                                                   *)
(***************************************************************************)
C8_AlwaysNotFound ==
    (call.op = "get_file_data" /\ ValuesAt(store, call.path) = {}) =>
        /\ call.result = "ERROR_FILE_NOT_FOUND"
        /\ ~IsSome(call.delivered)
        /\ call.reads <= 1

(***************************************************************************)
(* C8, amended: for a path that names no value get_file_data returns       *)
(* NotFound if the host buffer was allocated and OutOfMemory if it was     *)
(* not; either way it does not call PrjWriteFileData, reads the registry   *)
(* at most once and leaves no buffer behind.                               *)
(***************************************************************************)
C8_NotFoundUnlessOutOfMemory ==
    (call.op = "get_file_data" /\ ValuesAt(store, call.path) = {}) =>
        /\ call.result = IF call.acquired = 1 THEN "ERROR_FILE_NOT_FOUND"
                         ELSE "E_OUTOFMEMORY"
        /\ ~IsSome(call.delivered)
        /\ call.reads <= 1
        /\ call.acquired = 0 => call.reads = 0
        /\ call.released = call.acquired

\* the data of a root key, a path of depth 1, was asked for with a buffer
C8_Witness ==
    /\ call.op = "get_file_data"
    /\ call.acquired = 1
    /\ Len(call.path) = 1
    /\ ContainerAt(store, call.path)
    /\ call.length = 2
    /\ call.result = "ERROR_FILE_NOT_FOUND"
    /\ ~IsSome(call.delivered)

(***************************************************************************)
(* C9: a get_dir_enum that has to resolve the path of its session, and     *)
(* whose path names no key, returns NotFound, writes nothing and leaves    *)
(* the session in the table, empty.                                        *)
(***************************************************************************)
C9_Step ==
    (/\ GetOnSession
     /\ ~enum_sessions[call'.id].filled \/ call'.restart
     /\ ~Resolves(store, call'.path)) =>
        /\ call'.result = "ERROR_FILE_NOT_FOUND"
        /\ call'.written = <<>>
        /\ call'.id \in DOMAIN enum_sessions'
        /\ enum_sessions'[call'.id] = DirInfo_new(call'.path)

C9_NotFoundStatus == [][C9_Step]_vars

RootListing ==
    [i \in 1..5 |->
        [name |-> <<HKCR, HKCC, HKCU, HKLM, HKU>>[i],
         info |-> [IsDirectory |-> TRUE, FileSize |-> 0]]]

C11_Listing ==
    \A order \in KeymapOrders :
        \E l \in {enumerate_key(store, order, <<>>)} :
            /\ IsSome(l)
            /\ Unwrap(l).values = <<>>
            /\ Len(Unwrap(l).subkeys) = Cardinality(keymap)
            /\ {Unwrap(l).subkeys[i].name : i \in DOMAIN Unwrap(l).subkeys} = keymap
            /\ \A i \in DOMAIN Unwrap(l).subkeys : Unwrap(l).subkeys[i].size = 0

C11_Step ==
    (GetOnSession /\ call'.path = <<>>) =>
        \E d \in {enum_sessions'[call'.id]} :
            /\ call'.result = "S_OK"
            /\ (call'.restart \/ ~enum_sessions[call'.id].filled) => call'.filledNow
            /\ (call'.filledNow /\ call'.expr = "*") =>
                  /\ HostViews(d.entries) = RootListing
                  /\ {d.entries[i].filename : i \in DOMAIN d.entries} = keymap
                  /\ IsSorted(d.entries)
                  /\ call'.written = SubSeq(RootListing, 1, Len(call'.written))
                  /\ ~call'.full => call'.written = RootListing

C11_RootListing == []C11_Listing /\ [][C11_Step]_vars

\* start on the root, then one restarting get_dir_enum with "*" whose buffer
\* took everything: the host has the five root keys
C11_Witness ==
    /\ call.op = "get_dir_enum"
    /\ call.path = <<>>
    /\ call.restart
    /\ call.expr = "*"
    /\ ~call.full
    /\ call.written = RootListing
    /\ hostListing[call.id] = RootListing
    /\ registry = "B"

(***************************************************************************)
(* C12: read_value and does_value_exist return None for every path of      *)
(* depth 0 or 1, whatever the registry holds; when they return a value the *)
(* path has depth 2 or more, the components before the last name a key of  *)
(* the registry, the last names a value of that key, and what is returned  *)
(* is the bytes (or the byte length) of that value.                        *)
(***************************************************************************)
\* the components of a path before the last
ParentPath(path) == SubSeq(path, 1, Len(path) - 1)

C12_DepthRule ==
    call.op \in {"read_value", "does_value_exist"} =>
        /\ Len(call.path) <= 1 => call.answer = None
        /\ IsSome(call.answer) =>
              /\ Len(call.path) >= 2
              /\ ContainerAt(store, ParentPath(call.path))
              /\ ValuesAt(store, call.path) # {}
              /\ call.op = "read_value" =>
                    Unwrap(call.answer) \in ValuesAt(store, call.path)
              /\ call.op = "does_value_exist" =>
                    \E bytes \in ValuesAt(store, call.path) :
                        Unwrap(call.answer) = Len(bytes)

\* read_value was asked for a root key that has values and subkeys
C12_Witness ==
    /\ call.op = "read_value"
    /\ call.path = <<HKLM>>
    /\ call.answer = None
    /\ ContainerAt(store, call.path)
    /\ store[<<HKLM>>].values # <<>>

(***************************************************************************)
(* C13: for a path that addresses nothing in the registry, neither the     *)
(* root nor a key nor a value, does_key_exist is false and enumerate_key,  *)
(* read_value and does_value_exist return None.                            *)
(***************************************************************************)
AddressesNothing(st, path) ==
    /\ Len(path) >= 1
    /\ ~ContainerAt(st, path)
    /\ ValuesAt(st, path) = {}

C13_NotFoundConsistency ==
    AddressesNothing(store, call.path) =>
        /\ call.op = "does_key_exist" => ~call.exists
        /\ call.op \in {"enumerate_key", "read_value", "does_value_exist"} =>
              call.answer = None

\* a key that another process removed was listed: the parent exists, the
\* path addressed a key in the registry as it was before
C13_Witness ==
    /\ call.op = "enumerate_key"
    /\ call.path = <<HKLM, "SOFTWARE">>
    /\ AddressesNothing(store, call.path)
    /\ ~AddressesNothing(StoreA, call.path)
    /\ call.answer = None

(***************************************************************************)
(* C14: the Mutex of the session table is held for the lookup, the insert  *)
(* and the remove only: no thread holds it while its get_dir_enum resolves *)
(* the path, fills, sorts or drains, and so a get_dir_enum at work on one  *)
(* id keeps no callback for another id waiting for the Mutex.              *)
(***************************************************************************)
\* t is in the part of get_dir_enum that works on the session
AtSessionWork(t) == threads[t].pc \in {"get_fill", "get_drain"}

\* t waits for the Mutex
AtLock(t) == threads[t].pc \in {"start_lock", "end_lock", "get_lock"}

C14_LockScope ==
    /\ \A t \in Threads : AtSessionWork(t) => lock # t
    /\ \A t, u \in Threads :
          (AtSessionWork(t) /\ AtLock(u) /\ threads[u].id # threads[t].id) =>
              lock = NoThread

(***************************************************************************)
(* C15: a get_dir_enum with the restart flag, whatever state the session   *)
(* is in, asks the registry again and leaves what a first get_dir_enum on  *)
(* a session just started for that path leaves: if the path resolves in    *)
(* the registry as it is now, a cache filled with the children that match  *)
(* the expression of this call, sorted, the entries written from the first *)
(* one on; if it does not, an empty session and nothing written.           *)
(***************************************************************************)
C15_Step ==
    (GetOnSession /\ call'.restart) =>
        \E d \in {enum_sessions'[call'.id]} :
            /\ call'.reads = 1
            /\ d.path = enum_sessions[call'.id].path
            /\ \E room \in Rooms, order \in OrdersFor(call'.path) :
                  \E r \in {get_dir_enum_session(store, order, call'.path,
                                                 DirInfo_new(d.path),
                                                 call'.expr, FALSE, room)} :
                      /\ r.dirinfo = d
                      /\ r.written = call'.written
                      /\ r.result = call'.result
            /\ IF Resolves(store, call'.path)
               THEN /\ call'.result = "S_OK"
                    /\ call'.filledNow
                    /\ d.filled
                    /\ IsSorted(d.entries)
                    /\ SameBag(d.entries,
                               MatchingChildren(store, call'.path, call'.expr))
                    /\ d.index = Len(call'.written)
                    /\ call'.written = HostViews(SubSeq(d.entries, 1, d.index))
                    /\ hostListing'[call'.id] = call'.written
               ELSE /\ call'.result # "S_OK"
                    /\ d = DirInfo_new(call'.path)
                    /\ call'.written = <<>>
                    /\ hostListing'[call'.id] = <<>>

C15_Restart == [][C15_Step]_vars

\* a restart read HKEY_LOCAL_MACHINE from the registry as it is after the
\* edit: two entries, the first of them written
C15_Witness ==
    /\ call.op = "get_dir_enum"
    /\ call.restart
    /\ call.filledNow
    /\ call.expr = "*"
    /\ call.path = <<HKLM>>
    /\ registry = "B"
    /\ Len(enum_sessions[call.id].entries) = 2
    /\ enum_sessions[call.id].index = 1
    /\ Len(hostListing[call.id]) = 1
    /\ call.full

(***************************************************************************)
(* C16: the table holds one session per id; start_dir_enum always returns  *)
(* S_OK and leaves, for its id, a session of the new path that is empty    *)
(* and unfilled with the cursor at 0, whether or not the id was in the     *)
(* table, and leaves the other sessions alone; what the host has been      *)
(* given for an id since its last start is the head of the cache of the    *)
(* session that is in the table now, and that cache lists children of the  *)
(* path of that session.                                                   *)
(***************************************************************************)
C16_Table ==
    /\ DOMAIN enum_sessions \subseteq Ids
    /\ \A id \in DOMAIN enum_sessions :
          \E d \in {enum_sessions[id]} :
              IF d.filled
              THEN /\ hostListing[id] = HostViews(SubSeq(d.entries, 1, d.index))
                   /\ \E r \in DOMAIN Stores, e \in Exprs :
                          /\ Resolves(Stores[r], d.path)
                          /\ SameBag(d.entries,
                                     MatchingChildren(Stores[r], d.path, e))
              ELSE /\ hostListing[id] = <<>>
                   /\ d = DirInfo_new(d.path)

C16_Step ==
    call'.op = "start_dir_enum" =>
        /\ call'.result = "S_OK"
        /\ call'.present = (call'.id \in DOMAIN enum_sessions)
        /\ DOMAIN enum_sessions' = DOMAIN enum_sessions \cup {call'.id}
        /\ enum_sessions'[call'.id] =
              [path |-> call'.path, index |-> 0, filled |-> FALSE,
               entries |-> <<>>]
        /\ hostListing'[call'.id] = <<>>
        /\ \A other \in DOMAIN enum_sessions \ {call'.id} :
              /\ enum_sessions'[other] = enum_sessions[other]
              /\ hostListing'[other] = hostListing[other]

C16_Uniqueness == []C16_Table /\ [][C16_Step]_vars

\* start_dir_enum was called for an id that was in the table, while the
\* other session is half-way through its listing
C16_Witness ==
    /\ call.op = "start_dir_enum"
    /\ call.present
    /\ call.path = <<HKLM>>
    /\ enum_sessions[call.id] = DirInfo_new(<<HKLM>>)
    /\ \E other \in DOMAIN enum_sessions \ {call.id} :
          /\ enum_sessions[other].filled
          /\ enum_sessions[other].index = 2
          /\ Len(enum_sessions[other].entries) = 5

(***************************************************************************)
(* C17: end_dir_enum returns S_OK whether or not its id is in the table,   *)
(* takes exactly the session of its id out and leaves every other session  *)
(* as it is; for an id that is not in the table, as in a second            *)
(* end_dir_enum, the table stays the same.                                 *)
(***************************************************************************)
C17_Step ==
    call'.op = "end_dir_enum" =>
        /\ call'.result = "S_OK"
        /\ call'.present = (call'.id \in DOMAIN enum_sessions)
        /\ DOMAIN enum_sessions' = DOMAIN enum_sessions \ {call'.id}
        /\ \A other \in DOMAIN enum_sessions \ {call'.id} :
              /\ enum_sessions'[other] = enum_sessions[other]
              /\ hostListing'[other] = hostListing[other]
        /\ ~call'.present => enum_sessions' = enum_sessions

C17_EndIdempotent == [][C17_Step]_vars

\* end_dir_enum was called for an id that is not in the table, and the
\* session of the other id is still there, filled
C17_Witness ==
    /\ call.op = "end_dir_enum"
    /\ ~call.present
    /\ call.result = "S_OK"
    /\ \E other \in DOMAIN enum_sessions :
          /\ other # call.id
          /\ enum_sessions[other].filled
          /\ enum_sessions[other].index = 1

(***************************************************************************)
(* C18: the cursor of every session is between 0 and the number of         *)
(* entries; only a start_dir_enum or a restart for the id of the session   *)
(* makes it smaller; a get_dir_enum moves it by the number of entries it   *)
(* wrote; when the buffer refused an entry the cursor stays on that entry, *)
(* and otherwise it ends behind the last entry.                            *)
(***************************************************************************)
C18_Bounds ==
    \A id \in DOMAIN enum_sessions :
        /\ 0 <= enum_sessions[id].index
        /\ enum_sessions[id].index <= Len(enum_sessions[id].entries)

C18_Step ==
    /\ \A id \in DOMAIN enum_sessions \cap DOMAIN enum_sessions' :
          enum_sessions'[id].index < enum_sessions[id].index =>
              /\ call'.id = id
              /\ \/ call'.op = "start_dir_enum"
                 \/ call'.op = "get_dir_enum" /\ call'.restart
    /\ GetOnSession =>
          \E d \in {enum_sessions'[call'.id]} :
              /\ d.index = (IF call'.restart THEN 0
                            ELSE enum_sessions[call'.id].index)
                           + Len(call'.written)
              /\ call'.full => d.index < Len(d.entries)
              /\ (~call'.full /\ call'.result = "S_OK") =>
                    d.index = Len(d.entries)

C18_Cursor == []C18_Bounds /\ [][C18_Step]_vars

\* the buffer took two entries and refused the third of four: the cursor
\* is on the third
C18_Witness ==
    /\ call.op = "get_dir_enum"
    /\ call.full
    /\ Len(call.written) = 2
    /\ enum_sessions[call.id].index = 2
    /\ Len(enum_sessions[call.id].entries) = 4

(***************************************************************************)
(* C19: a get_dir_enum without the restart flag on a filled session does   *)
(* not ask the registry, leaves the cached entries and their order as they *)
(* are, whatever the registry holds now and whatever the expression of the *)
(* call, and writes the cached entries from the cursor on; the entries of  *)
(* a filled session change only by a restart or a start_dir_enum for its   *)
(* id.                                                                     *)
(***************************************************************************)
C19_Step ==
    /\ (GetOnSession /\ enum_sessions[call'.id].filled /\ ~call'.restart) =>
          \E old \in {enum_sessions[call'.id]}, d \in {enum_sessions'[call'.id]} :
              /\ call'.reads = 0
              /\ ~call'.filledNow
              /\ call'.result = "S_OK"
              /\ d.filled
              /\ d.entries = old.entries
              /\ call'.written = HostViews(SubSeq(old.entries, old.index + 1,
                                                  d.index))
    /\ \A id \in DOMAIN enum_sessions \cap DOMAIN enum_sessions' :
          (/\ enum_sessions[id].filled
           /\ ~(/\ call'.id = id
                /\ \/ call'.op = "start_dir_enum"
                   \/ call'.op = "get_dir_enum" /\ call'.restart)) =>
              /\ enum_sessions'[id].filled
              /\ enum_sessions'[id].entries = enum_sessions[id].entries

C19_Snapshot == [][C19_Step]_vars

\* the session was filled with "*" before the registry was edited; the call
\* with "s*" after the edit wrote Version with the size it had before,
\* which neither matches "s*" nor is what the registry holds now
C19_Witness ==
    /\ call.op = "get_dir_enum"
    /\ ~call.restart
    /\ ~call.filledNow
    /\ call.expr = "s*"
    /\ call.path = <<HKLM>>
    /\ registry = "B"
    /\ Len(call.written) >= 1
    /\ call.written[Len(call.written)] =
          [name |-> "Version", info |-> [IsDirectory |-> FALSE, FileSize |-> 4]]

C21_ContainerQueriesAgree ==
    /\ call.op = "does_key_exist" =>
          call.exists = Resolves(store, call.path)
    /\ call.op = "enumerate_key" =>
          IsSome(call.answer) = does_key_exist(store, call.path)

====
